---- MODULE Spec2Model ----
(***************************************************************************)
(* The A2A task engine of narennaik/adcp (class A2aServer,                 *)
(* src/transport/a2a/server.ts, kept in src/unnamed/part_004).             *)
(*                                                                         *)
(* JavaScript runs every handler to its next await without interleaving,   *)
(* so one action is one such run: the synchronous part of createTask, the  *)
(* continuation of processTask after the handler's promise settles, and    *)
(* the whole of continueTask, cancelTask, subscribeToTask and of a         *)
(* returned unsubscribe function.  Timestamps and uuid strings are left    *)
(* out: a task id is its index in the task table, and id 0 stands for an   *)
(* id the server never issued.                                             *)
(***************************************************************************)
EXTENDS Integers, Sequences, FiniteSets, TLC

VARIABLES
    tasks,          \* this.tasks: task id -> A2aTask (the id is the index)
    proc,           \* the processTask call of each task: its frame and phase
    taskListeners,  \* this.taskListeners: task id -> Set object (0: no entry)
    sets,           \* the Set<SseListener> objects ever allocated, by identity
    subs,           \* the subscribeToTask calls made and the closures returned
    log,            \* per task id, every listener invocation for it, in order
    webhooks,       \* per task id, every sendWebhook call for it, in order
    emitted,        \* the events the latest operation passed to emitEvent
    parse,          \* the latest call of parseSkillInvocation, if any: <<>> or
                    \* one record of its request and the invocation returned
    last,           \* the latest operation and what it returned
    steps           \* how many operations have run

vars == <<tasks, proc, taskListeners, sets, subs, log, webhooks, emitted, parse,
          last, steps>>

----------------------------------------------------------------------------
(* Bounds of the model *)

MaxTasks == 2
MaxSteps == 5
MaxParts == 3

----------------------------------------------------------------------------
(* Values *)

NoTask == 0
NoSet == 0
None == "undefined"

TaskIds == 0..MaxTasks

Listeners == {"cbA", "cbB", "cbThrows"}

\* Callbacks that throw whenever they are invoked.
Throwing == {"cbThrows"}

\* (variant: the check of 'failed' forgotten)
CancelFinalStates_OnlyCompleted == {"completed"}

\* The states cancelTask refuses to touch.
CancelFinalStates == {"completed", "failed"}

DataPartA == [type |-> "data", data |-> [k1 |-> 1]]
TextPartA == [type |-> "text", text |-> "hello"]

\* The parts lists a caller sends in this model.
PartsChoices == {<<DataPartA>>, <<TextPartA>>}

\* Skills routed to a handler by executeSkill; build_creative is the one
\* whose result carries an artifact.
HandlerSkills == {"create_media_buy", "build_creative"}

Skills == HandlerSkills \cup {"unknown_skill"}

\* The requests callers send in this model: each route of executeSkill, with
\* and without a webhook, with a data part, a text part and no part at all.
Requests ==
    {[skill |-> "create_media_buy", parts |-> <<DataPartA>>, webhook |-> TRUE],
     [skill |-> "build_creative", parts |-> <<>>, webhook |-> FALSE],
     [skill |-> "unknown_skill", parts |-> <<DataPartA>>, webhook |-> TRUE],
     [skill |-> "unknown_skill", parts |-> <<TextPartA>>, webhook |-> FALSE]}

\* result.status of a handler, which executeSkill passes through unchanged:
\* completed, failed and submitted are returned by the handlers of the
\* repository (createMediaBuy returns all three); input-required is the
\* TaskStatus by which a configured handler asks for more input.
HandlerStatuses == {"completed", "failed", "submitted", "input-required"}

\* error.code of an AdcpError thrown by a handler (one representative), and
\* the marker of a thrown value that is not an AdcpError.
HandlerErrorCodes == {"INVALID_REQUEST"}
PlainError == "Error"

----------------------------------------------------------------------------
(* parseSkillInvocation *)

\* (variant: { ...part.data, ...parameters }, the earlier part winning)
Spread_FirstWins(a, b) ==
    [k \in (DOMAIN a) \cup (DOMAIN b) |-> IF k \in DOMAIN a THEN a[k] ELSE b[k]]

\* { ...parameters, ...part.data }: the keys of both, the right one winning.
Spread(a, b) ==
    [k \in (DOMAIN a) \cup (DOMAIN b) |-> IF k \in DOMAIN b THEN b[k] ELSE a[k]]

\* (variant: context ??= part.text, the first text part kept)
RECURSIVE ParseParts_FirstText(_, _)
ParseParts_FirstText(parts, acc) ==
    IF parts = <<>> THEN acc
    ELSE LET part == Head(parts)
             nxt == CASE part.type = "text" ->
                             IF acc.context = None
                             THEN [acc EXCEPT !.context = part.text] ELSE acc
                      [] part.type = "data" ->
                             [acc EXCEPT !.parameters = Spread(@, part.data)]
                      [] part.type = "file" ->
                             [acc EXCEPT !.files = Append(@, part.uri)]
                      [] OTHER -> acc
         IN ParseParts_FirstText(Tail(parts), nxt)

RECURSIVE ParseParts(_, _)
ParseParts(parts, acc) ==
    IF parts = <<>> THEN acc
    ELSE LET part == Head(parts)
             nxt == CASE part.type = "text" -> [acc EXCEPT !.context = part.text]
                      [] part.type = "data" ->
                             [acc EXCEPT !.parameters = Spread(@, part.data)]
                      [] part.type = "file" ->
                             [acc EXCEPT !.files = Append(@, part.uri)]
                      [] OTHER -> acc
         IN ParseParts(Tail(parts), nxt)

parseSkillInvocation(request) ==
    LET r == ParseParts(request.parts,
                        [parameters |-> <<>>, context |-> None, files |-> <<>>])
    IN [skill |-> IF request.skill = None THEN "default" ELSE request.skill,
        parameters |-> r.parameters,
        context |-> r.context,
        files |-> IF Len(r.files) > 0 THEN r.files ELSE None]

----------------------------------------------------------------------------
(* executeSkill, seen from processTask *)

\* if (context): undefined and the empty string are falsy.
Truthy(context) == context # None /\ context # ""

\* (variant: the default case hands every unknown skill to the
\* natural-language handler, whether or not there is a context)
ExecuteSkillRoute_AlwaysNatural(invocation) ==
    IF invocation.skill \in HandlerSkills THEN "handler" ELSE "natural"

\* Where the switch of executeSkill sends an invocation, every protocol
\* handler being configured (createA2aServer's default): to a handler, to
\* handleNaturalLanguageRequest, or to the throw of NOT_IMPLEMENTED, which
\* happens before the first await of executeSkill.
ExecuteSkillRoute(invocation) ==
    IF invocation.skill \in HandlerSkills THEN "handler"
    ELSE IF Truthy(invocation.context) THEN "natural"
    ELSE "reject"

\* What executeSkill can resolve to.  A handler is a collaborator handed in
\* through the configuration; its status is passed through unchanged, and
\* only build_creative adds an artifact.  The text of this model holds no
\* routing keyword, so handleNaturalLanguageRequest reaches its last return.
ExecuteSkillResults(invocation) ==
    CASE ExecuteSkillRoute(invocation) = "handler" ->
            [status : HandlerStatuses,
             artifact : {invocation.skill = "build_creative"}]
      [] ExecuteSkillRoute(invocation) = "natural" ->
            {[status |-> "completed", artifact |-> FALSE]}
      [] OTHER -> {}

\* What executeSkill can reject with.
ExecuteSkillErrors(invocation) ==
    CASE ExecuteSkillRoute(invocation) = "handler" ->
            HandlerErrorCodes \cup {PlainError}
      [] ExecuteSkillRoute(invocation) = "natural" -> {}
      [] OTHER -> {"NOT_IMPLEMENTED"}

\* (variant: every thrown value reported with the generic code)
ErrorCode_AlwaysInternal(error) == "INTERNAL_ERROR"

\* error instanceof AdcpError ? error.code : 'INTERNAL_ERROR'
ErrorCode(error) == IF error = PlainError THEN "INTERNAL_ERROR" ELSE error

\* error.message
ErrorMessage(error) ==
    CASE error = "NOT_IMPLEMENTED" -> "Unknown skill"
      [] error = PlainError -> "plain error message"
      [] OTHER -> "domain error message"

----------------------------------------------------------------------------
(* The event bus *)

\* The listeners emitEvent iterates over: the Set object registered for the
\* task id, in insertion order.
ListenersOf(t) == IF taskListeners[t] = NoSet THEN <<>> ELSE sets[taskListeners[t]]

Invocation(l, event) ==
    [lis |-> l, type |-> event.type, task |-> event.task, info |-> event.info]

\* (variant: no try/catch around the call, the loop ends at the first throw)
emitEvent_StopsAtThrow(lg, t, event) ==
    LET ls == ListenersOf(t)
        upTo == IF \E i \in 1..Len(ls) : ls[i] \in Throwing
                THEN CHOOSE i \in 1..Len(ls) :
                        /\ ls[i] \in Throwing
                        /\ \A j \in 1..(i - 1) : ls[j] \notin Throwing
                ELSE Len(ls)
    IN lg \o [i \in 1..upTo |-> Invocation(ls[i], event)]

\* emitEvent: every listener of the set is invoked once; what a listener
\* throws is ignored.
emitEvent(lg, t, event) ==
    lg \o [i \in 1..Len(ListenersOf(t)) |-> Invocation(ListenersOf(t)[i], event)]

\* The events: type, task id, and of the data what tells events apart (the
\* state of a status, the role of a message, the name of an artifact, the
\* code of an error) and its message (status.message, the error's message).
StatusEvent(t, status) ==
    [type |-> "status", task |-> t, info |-> status.state, message |-> status.message]
MessageEvent(t, message) ==
    [type |-> "message", task |-> t, info |-> message.role, message |-> None]
ArtifactEvent(t, artifact) ==
    [type |-> "artifact", task |-> t, info |-> artifact.name, message |-> None]
CompleteEvent(t, status) ==
    [type |-> "complete", task |-> t, info |-> status.state, message |-> status.message]
ErrorEvent(t, code, message) ==
    [type |-> "error", task |-> t, info |-> code, message |-> message]

----------------------------------------------------------------------------
(* completeTask and failTask: the task they leave and the log they leave *)

\* (variant: the complete event published before the message event)
completeTask_CompleteFirst(task, lg, t, responseMessage, status) ==
    LET done == [task EXCEPT
                   !.messages = Append(@, responseMessage),
                   !.status = [state |-> status,
                               message |-> IF status = "completed"
                                           THEN "Task completed successfully"
                                           ELSE "Processing"]]
    IN [task |-> done,
        log |-> emitEvent(emitEvent(lg, t, CompleteEvent(t, done.status)),
                          t, MessageEvent(t, responseMessage)),
        events |-> <<CompleteEvent(t, done.status), MessageEvent(t, responseMessage)>>]

\* (variant: the complete event never published)
completeTask_NoCompleteEvent(task, lg, t, responseMessage, status) ==
    LET done == [task EXCEPT
                   !.messages = Append(@, responseMessage),
                   !.status = [state |-> status,
                               message |-> IF status = "completed"
                                           THEN "Task completed successfully"
                                           ELSE "Processing"]]
    IN [task |-> done,
        log |-> emitEvent(lg, t, MessageEvent(t, responseMessage)),
        events |-> <<MessageEvent(t, responseMessage)>>]

\* (variant: the messages assigned anew instead of pushed to)
completeTask_ReplacesMessages(task, lg, t, responseMessage, status) ==
    LET done == [task EXCEPT
                   !.messages = <<responseMessage>>,
                   !.status = [state |-> status,
                               message |-> IF status = "completed"
                                           THEN "Task completed successfully"
                                           ELSE "Processing"]]
    IN [task |-> done,
        log |-> emitEvent(emitEvent(lg, t, MessageEvent(t, responseMessage)),
                          t, CompleteEvent(t, done.status)),
        events |-> <<MessageEvent(t, responseMessage), CompleteEvent(t, done.status)>>]

completeTask(task, lg, t, responseMessage, status) ==
    LET done == [task EXCEPT
                   !.messages = Append(@, responseMessage),
                   !.status = [state |-> status,
                               message |-> IF status = "completed"
                                           THEN "Task completed successfully"
                                           ELSE "Processing"]]
    IN [task |-> done,
        log |-> emitEvent(emitEvent(lg, t, MessageEvent(t, responseMessage)),
                          t, CompleteEvent(t, done.status)),
        events |-> <<MessageEvent(t, responseMessage), CompleteEvent(t, done.status)>>]

\* (variant: the error event published, the status left as it was)
failTask_NoStatus(task, lg, t, code, message) ==
    [task |-> task,
     log |-> emitEvent(lg, t, ErrorEvent(t, code, message)),
     events |-> <<ErrorEvent(t, code, message)>>]

failTask(task, lg, t, code, message) ==
    [task |-> [task EXCEPT !.status = [state |-> "failed", message |-> message]],
     log |-> emitEvent(lg, t, ErrorEvent(t, code, message)),
     events |-> <<ErrorEvent(t, code, message)>>]

\* sendWebhook only logs the payload.
sendWebhook(wh, t, event, status) ==
    Append(wh, [task |-> t, event |-> event, state |-> status.state])

----------------------------------------------------------------------------
(* Initial state: a server just constructed *)

Init ==
    /\ tasks = <<>>
    /\ proc = <<>>
    /\ taskListeners = [t \in TaskIds |-> NoSet]
    /\ sets = <<>>
    /\ subs = <<>>
    /\ log = [t \in TaskIds |-> <<>>]
    /\ webhooks = [t \in TaskIds |-> <<>>]
    /\ emitted = <<>>
    /\ parse = <<>>
    /\ last = [op |-> "new", task |-> NoTask, ret |-> None, sub |-> 0, writes |-> <<>>]
    /\ steps = 0

Exists(t) == t \in 1..Len(tasks)

\* A caller can name a task id only once createTask has handed it out.  When
\* executeSkill throws before its first await, the catch block of
\* processTask is queued ahead of the caller's continuation, so it runs
\* before anybody holds the id.
Callable(t) == t = NoTask \/ (Exists(t) /\ proc[t].phase # "rejected")

\* The record of an operation: the task id it was about, what it returned,
\* the subscription whose closure it was (0: none), and the values it
\* assigned to task.status.state, in order.
Returned(op, t, ret, sub, writes) ==
    [op |-> op, task |-> t, ret |-> ret, sub |-> sub, writes |-> writes]

\* getTask: the stored task, or null.
getTask(store, t) == IF t \in 1..Len(store) THEN store[t] ELSE "null"

\* One more operation runs.
Step == steps < MaxSteps /\ steps' = steps + 1

----------------------------------------------------------------------------
(* createTask, up to the first await of processTask *)

\* (variant: the task stored as submitted, the request not yet recorded)
NewTask_Submitted(request) ==
    [status |-> [state |-> "submitted", message |-> "Processing request"],
     messages |-> <<>>,
     artifacts |-> <<>>]

NewTask(request) ==
    [status |-> [state |-> "working", message |-> "Processing request"],
     messages |-> <<[role |-> "user", parts |-> request.parts]>>,
     artifacts |-> <<>>]

\* (variant: a status event emitted for the new task)
CreateTask_EmitsStatus(request) ==
    /\ Step
    /\ Len(tasks) < MaxTasks
    /\ tasks' = Append(tasks, NewTask(request))
    /\ proc' = Append(proc,
                 [request |-> request,
                  phase |-> IF ExecuteSkillRoute(parseSkillInvocation(request)) = "reject"
                            THEN "rejected" ELSE "pending"])
    /\ parse' = <<[request |-> request, invocation |-> parseSkillInvocation(request)]>>
    /\ emitted' = <<StatusEvent(Len(tasks) + 1, NewTask(request).status)>>
    /\ last' = Returned("createTask", Len(tasks) + 1, "working", 0, <<"working">>)
    /\ UNCHANGED <<taskListeners, sets, subs, log, webhooks>>

CreateTask(request) ==
    /\ Step
    /\ Len(tasks) < MaxTasks
    /\ tasks' = Append(tasks, NewTask(request))
    /\ proc' = Append(proc,
                 [request |-> request,
                  phase |-> IF ExecuteSkillRoute(parseSkillInvocation(request)) = "reject"
                            THEN "rejected" ELSE "pending"])
    /\ parse' = <<[request |-> request, invocation |-> parseSkillInvocation(request)]>>
    /\ emitted' = <<>>
    /\ last' = Returned("createTask", Len(tasks) + 1, "working", 0, <<"working">>)
    /\ UNCHANGED <<taskListeners, sets, subs, log, webhooks>>

----------------------------------------------------------------------------
(* processTask after the await: the handler's result has arrived *)

ResponseMessage == [role |-> "agent", parts |-> <<"text", "data">>]

ProcessTaskReturns(t, result) ==
    /\ Step
    /\ Exists(t)
    /\ proc[t].phase = "pending"
    /\ result \in ExecuteSkillResults(parseSkillInvocation(proc[t].request))
    /\ LET artifact == [name |-> "creative_manifest"]
           withArtifact == IF result.artifact
                           THEN [tasks[t] EXCEPT !.artifacts = Append(@, artifact)]
                           ELSE tasks[t]
           lg1 == IF result.artifact
                  THEN emitEvent(log[t], t, ArtifactEvent(t, artifact))
                  ELSE log[t]
           done == completeTask(withArtifact, lg1, t, ResponseMessage, result.status)
       IN /\ tasks' = [tasks EXCEPT ![t] = done.task]
          /\ log' = [log EXCEPT ![t] = done.log]
          /\ emitted' = (IF result.artifact THEN <<ArtifactEvent(t, artifact)>> ELSE <<>>)
                         \o done.events
          /\ webhooks' = IF proc[t].request.webhook
                         THEN [webhooks EXCEPT ![t] =
                                 sendWebhook(@, t, "completed", done.task.status)]
                         ELSE webhooks
    /\ proc' = [proc EXCEPT ![t].phase = "done"]
    /\ last' = Returned("processTask", t, "resolved", 0, <<result.status>>)
    /\ UNCHANGED <<taskListeners, sets, subs, parse>>

(* processTask after the await: executeSkill rejected *)

\* (variant: the webhook sent before failTask, with the status still working)
ProcessTaskCatches_WebhookFirst(t, error) ==
    /\ Step
    /\ Exists(t)
    /\ proc[t].phase \in {"pending", "rejected"}
    /\ error \in ExecuteSkillErrors(parseSkillInvocation(proc[t].request))
    /\ LET failed == failTask(tasks[t], log[t], t, ErrorCode(error), ErrorMessage(error))
       IN /\ tasks' = [tasks EXCEPT ![t] = failed.task]
          /\ log' = [log EXCEPT ![t] = failed.log]
          /\ emitted' = failed.events
          /\ webhooks' = IF proc[t].request.webhook
                         THEN [webhooks EXCEPT ![t] =
                                 sendWebhook(@, t, "failed", tasks[t].status)]
                         ELSE webhooks
    /\ proc' = [proc EXCEPT ![t].phase = "done"]
    /\ last' = Returned("processTask", t, "caught", 0, <<"failed">>)
    /\ UNCHANGED <<taskListeners, sets, subs, parse>>

ProcessTaskCatches(t, error) ==
    /\ Step
    /\ Exists(t)
    /\ proc[t].phase \in {"pending", "rejected"}
    /\ error \in ExecuteSkillErrors(parseSkillInvocation(proc[t].request))
    /\ LET failed == failTask(tasks[t], log[t], t, ErrorCode(error), ErrorMessage(error))
       IN /\ tasks' = [tasks EXCEPT ![t] = failed.task]
          /\ log' = [log EXCEPT ![t] = failed.log]
          /\ emitted' = failed.events
          /\ webhooks' = IF proc[t].request.webhook
                         THEN [webhooks EXCEPT ![t] =
                                 sendWebhook(@, t, "failed", failed.task.status)]
                         ELSE webhooks
    /\ proc' = [proc EXCEPT ![t].phase = "done"]
    /\ last' = Returned("processTask", t, "caught", 0, <<"failed">>)
    /\ UNCHANGED <<taskListeners, sets, subs, parse>>

----------------------------------------------------------------------------
(* continueTask *)

AckMessage == [role |-> "agent", parts |-> <<"Acknowledged additional input.">>]

\* (variant: the task completed with the state it had, not 'completed')
ContinueTask_KeepsState(t, parts) ==
    /\ Step
    /\ Callable(t)
    /\ IF ~Exists(t)
       THEN /\ last' = Returned("continueTask", t, "null", 0, <<>>)
            /\ emitted' = <<>>
            /\ UNCHANGED <<tasks, log>>
       ELSE /\ LET resumed == [tasks[t] EXCEPT
                                 !.messages = Append(@, [role |-> "user", parts |-> parts]),
                                 !.status = [state |-> "working",
                                             message |-> "Processing additional input"]]
                   lg1 == emitEvent(log[t], t, StatusEvent(t, resumed.status))
                   done == completeTask(resumed, lg1, t, AckMessage,
                                        tasks[t].status.state)
               IN /\ tasks' = [tasks EXCEPT ![t] = done.task]
                  /\ log' = [log EXCEPT ![t] = done.log]
                  /\ emitted' = <<StatusEvent(t, resumed.status)>> \o done.events
            /\ last' = Returned("continueTask", t, "task", 0,
                                <<"working", tasks[t].status.state>>)
    /\ UNCHANGED <<proc, taskListeners, sets, subs, webhooks, parse>>

ContinueTask(t, parts) ==
    /\ Step
    /\ Callable(t)
    /\ IF ~Exists(t)
       THEN /\ last' = Returned("continueTask", t, "null", 0, <<>>)
            /\ emitted' = <<>>
            /\ UNCHANGED <<tasks, log>>
       ELSE /\ LET resumed == [tasks[t] EXCEPT
                                 !.messages = Append(@, [role |-> "user", parts |-> parts]),
                                 !.status = [state |-> "working",
                                             message |-> "Processing additional input"]]
                   lg1 == emitEvent(log[t], t, StatusEvent(t, resumed.status))
                   done == completeTask(resumed, lg1, t, AckMessage, "completed")
               IN /\ tasks' = [tasks EXCEPT ![t] = done.task]
                  /\ log' = [log EXCEPT ![t] = done.log]
                  /\ emitted' = <<StatusEvent(t, resumed.status)>> \o done.events
            /\ last' = Returned("continueTask", t, "task", 0, <<"working", "completed">>)
    /\ UNCHANGED <<proc, taskListeners, sets, subs, webhooks, parse>>

----------------------------------------------------------------------------
(* cancelTask *)

CancelTask(t) ==
    /\ Step
    /\ Callable(t)
    /\ IF ~Exists(t) \/ (Exists(t) /\ tasks[t].status.state \in CancelFinalStates)
       THEN /\ last' = Returned("cancelTask", t, "false", 0, <<>>)
            /\ emitted' = <<>>
            /\ UNCHANGED <<tasks, log>>
       ELSE /\ tasks' = [tasks EXCEPT ![t].status =
                            [state |-> "failed", message |-> "Task cancelled"]]
            /\ log' = [log EXCEPT ![t] =
                         emitEvent(@, t, ErrorEvent(t, "CANCELLED", "Task cancelled"))]
            /\ emitted' = <<ErrorEvent(t, "CANCELLED", "Task cancelled")>>
            /\ last' = Returned("cancelTask", t, "true", 0, <<"failed">>)
    /\ UNCHANGED <<proc, taskListeners, sets, subs, webhooks, parse>>

----------------------------------------------------------------------------
(* subscribeToTask and the unsubscribe function it returns *)

\* Set.prototype.add
SetAdd(members, l) ==
    IF \E i \in 1..Len(members) : members[i] = l THEN members ELSE Append(members, l)

\* Set.prototype.delete
SetDelete(members, l) == SelectSeq(members, LAMBDA m : m # l)

\* (variant: the status of creation replayed instead of the current one)
CurrentStatusEvent_Working(t) ==
    StatusEvent(t, [state |-> "working", message |-> "Processing request"])

\* The status event subscribeToTask hands to the new listener.
CurrentStatusEvent(t) == StatusEvent(t, tasks[t].status)

SubscribeToTask(t, l) ==
    /\ Step
    /\ Callable(t)
    /\ LET fresh == taskListeners[t] = NoSet
           s == IF fresh THEN Len(sets) + 1 ELSE taskListeners[t]
       IN /\ sets' = IF fresh THEN Append(sets, <<l>>)
                     ELSE [sets EXCEPT ![s] = SetAdd(@, l)]
          /\ taskListeners' = [taskListeners EXCEPT ![t] = s]
          \* A throw of the callback on the status event leaves
          \* subscribeToTask before its return: nobody gets the closure.
          /\ subs' = Append(subs, [task |-> t, set |-> s, lis |-> l,
                                   returned |-> ~(Exists(t) /\ l \in Throwing)])
    /\ log' = IF Exists(t)
              THEN [log EXCEPT ![t] = Append(@, Invocation(l, CurrentStatusEvent(t)))]
              ELSE log
    /\ last' = Returned("subscribeToTask", t,
                        IF Exists(t) /\ l \in Throwing THEN "threw" ELSE "unsubscribe",
                        Len(subs) + 1, <<>>)
    \* The listener is called directly, not through emitEvent.
    /\ emitted' = <<>>
    /\ UNCHANGED <<tasks, proc, webhooks, parse>>

\* The closure returned by the i-th subscribeToTask call: it holds the Set
\* object that call found or made, not the map entry.
\* (variant: taskListeners.clear() instead of taskListeners.delete(taskId))
Unsubscribe_ClearsAll(i) ==
    /\ Step
    /\ i \in 1..Len(subs)
    /\ subs[i].returned
    /\ LET c == subs[i]
           members == SetDelete(sets[c.set], c.lis)
       IN /\ sets' = [sets EXCEPT ![c.set] = members]
          /\ taskListeners' = IF Len(members) = 0
                              THEN [t \in TaskIds |-> NoSet]
                              ELSE taskListeners
          /\ last' = Returned("unsubscribe", c.task, None, i, <<>>)
    /\ emitted' = <<>>
    /\ UNCHANGED <<tasks, proc, subs, log, webhooks, parse>>

Unsubscribe(i) ==
    /\ Step
    /\ i \in 1..Len(subs)
    /\ subs[i].returned
    /\ LET c == subs[i]
           members == SetDelete(sets[c.set], c.lis)
       IN /\ sets' = [sets EXCEPT ![c.set] = members]
          /\ taskListeners' = IF Len(members) = 0
                              THEN [taskListeners EXCEPT ![c.task] = NoSet]
                              ELSE taskListeners
          /\ last' = Returned("unsubscribe", c.task, None, i, <<>>)
    /\ emitted' = <<>>
    /\ UNCHANGED <<tasks, proc, subs, log, webhooks, parse>>

----------------------------------------------------------------------------

Next ==
    \/ \E request \in Requests : CreateTask(request)
    \/ \E t \in TaskIds : \E result \in [status : HandlerStatuses, artifact : BOOLEAN] :
          ProcessTaskReturns(t, result)
    \/ \E t \in TaskIds : \E error \in HandlerErrorCodes \cup {PlainError, "NOT_IMPLEMENTED"} :
          ProcessTaskCatches(t, error)
    \/ \E t \in TaskIds : \E parts \in PartsChoices : ContinueTask(t, parts)
    \/ \E t \in TaskIds : CancelTask(t)
    \/ \E t \in TaskIds : \E l \in Listeners : SubscribeToTask(t, l)
    \/ \E i \in 1..MaxSteps : Unsubscribe(i)

Spec == Init /\ [][Next]_vars

----------------------------------------------------------------------------
(* The parser on its own: parseSkillInvocation applied to every list of at
   most MaxParts parts *)

\* Text, data and file parts: two texts, data parts whose keys overlap and
\* differ, two files.
ParserParts ==
    {[type |-> "text", text |-> "hello"],
     [type |-> "text", text |-> "world"],
     [type |-> "data", data |-> [k1 |-> 1]],
     [type |-> "data", data |-> [k1 |-> 2]],
     [type |-> "data", data |-> [k2 |-> 3]],
     [type |-> "file", uri |-> "f1"],
     [type |-> "file", uri |-> "f2"]}

ParserRequests ==
    [skill : {None, "create_media_buy"},
     parts : UNION {[1..n -> ParserParts] : n \in 0..MaxParts},
     webhook : {FALSE}]

\* processTask calls parseSkillInvocation on the request it was given.
ParseCall(request) ==
    /\ parse' = <<[request |-> request, invocation |-> parseSkillInvocation(request)]>>
    /\ UNCHANGED <<tasks, proc, taskListeners, sets, subs, log, webhooks, emitted,
                   last, steps>>

ParserNext == \E request \in ParserRequests : ParseCall(request)

ParserSpec == Init /\ [][ParserNext]_vars

----------------------------------------------------------------------------
(* Vocabulary of the properties *)

\* The listener invocations a step adds for task id t.
Delivered(t) == SubSeq(log'[t], Len(log[t]) + 1, Len(log'[t]))

\* The invocations of one listener, and the event types of invocations.
Of(invocations, l) == SelectSeq(invocations, LAMBDA e : e.lis = l)
Types(invocations) == [i \in 1..Len(invocations) |-> invocations[i].type]

\* One event handed once to each listener of t, in the order of the set.
ToAll(t, event) ==
    [i \in 1..Len(ListenersOf(t)) |-> Invocation(ListenersOf(t)[i], event)]

\* The terminal states of the specification (section 4.1).
TerminalStates == {"completed", "failed", "canceled"}

\* The edges of the state graph of the specification (section 4.1).
GraphEdges ==
    {<<"submitted", "working">>, <<"working", "completed">>,
     <<"working", "failed">>, <<"working", "canceled">>,
     <<"working", "input-required">>, <<"input-required", "working">>}

\* The states task t goes through in a step: the one it had, then every
\* value the operation assigns to its status.state.
StateChain(t) ==
    <<tasks[t].status.state>> \o (IF last'.task = t THEN last'.writes ELSE <<>>)

----------------------------------------------------------------------------
(* C1 -- A task's status.state changes only along submitted->working,
   working->{completed, failed, canceled, input-required} and
   input-required->working, and never changes once it is completed, failed
   or canceled.  The code breaks it: continueTask and the completion of
   processTask assign the state whatever it was. *)
C1_StateFollowsGraph ==
    [][\A t \in 1..Len(tasks) :
         \A i \in 1..(Len(StateChain(t)) - 1) :
            LET from == StateChain(t)[i]
                to == StateChain(t)[i + 1]
            IN /\ from # to => <<from, to>> \in GraphEdges
               /\ from \in TerminalStates => to = from]_vars

(* C2 -- When the handler of a cancelled task returns successfully, the
   result is discarded: the task stays as Cancel left it, no message is
   appended and no event is published.  The code breaks it: completeTask
   does not look at the state. *)
C2_LateResultDiscarded ==
    [][\A t \in 1..Len(tasks) :
         (/\ last'.op = "processTask" /\ last'.ret = "resolved" /\ last'.task = t
          /\ last'.writes = <<"completed">>
          /\ tasks[t].status.message = "Task cancelled")
         => (tasks'[t] = tasks[t] /\ log'[t] = log[t])]_vars

(* C3 -- Continue on a completed, failed or canceled task is rejected to the
   caller, changes nothing of the task and publishes no event.  The code
   breaks it: continueTask never reads the state. *)
C3_ContinueTerminalRejected ==
    [][\A t \in 1..Len(tasks) :
         (/\ last'.op = "continueTask" /\ last'.task = t
          /\ tasks[t].status.state \in TerminalStates)
         => (/\ last'.ret = "rejected"
             /\ tasks'[t] = tasks[t]
             /\ log'[t] = log[t])]_vars

(* C4 -- Cancel on a working or input-required task sets status.state to
   canceled, a state other than failed, publishes one error event to the
   task's subscribers and returns true.  The code breaks it: cancelTask
   writes 'failed'. *)
C4_CancelMarksCanceled ==
    [][\A t \in 1..Len(tasks) :
         (/\ last'.op = "cancelTask" /\ last'.task = t
          /\ tasks[t].status.state \in {"working", "input-required"})
         => (/\ tasks'[t].status.state = "canceled"
             /\ tasks'[t].status.state # "failed"
             /\ Len(Delivered(t)) = Len(ListenersOf(t))
             /\ \A i \in 1..Len(Delivered(t)) : Delivered(t)[i].type = "error"
             /\ last'.ret = "true")]_vars

(* C5 -- Cancel returns false, changes nothing of the task store and
   publishes no event when the task id is unknown or the task is completed,
   failed or canceled; so does a second Cancel after a successful one. *)
C5_CancelRefused ==
    [][(/\ last'.op = "cancelTask"
        /\ \/ ~Exists(last'.task)
           \/ tasks[last'.task].status.state \in TerminalStates)
       => (/\ last'.ret = "false"
           /\ tasks' = tasks
           /\ log' = log
           /\ webhooks' = webhooks)]_vars

\* A second Cancel has just been refused on a task the first one cancelled.
C5_SecondCancelRefused ==
    /\ last.op = "cancelTask"
    /\ last.ret = "false"
    /\ Exists(last.task)
    /\ tasks[last.task].status.message = "Task cancelled"

----------------------------------------------------------------------------
(* Event order *)

\* The order the specification gives: status, message, artifact*, then
\* complete or error.
ClaimedRank(type) ==
    CASE type = "status" -> 0
      [] type = "message" -> 1
      [] type = "artifact" -> 2
      [] OTHER -> 3

\* What one run of the engine hands to one listener, as the code orders it.
ExecutionOrders ==
    {<<>>, <<"status">>, <<"error">>,
     <<"message", "complete">>,
     <<"artifact", "message", "complete">>,
     <<"status", "message", "complete">>}

(* C6, as claimed -- Each subscriber of a task receives the events of an
   execution in the order status, message, zero or more artifact events,
   then complete or error; no artifact event comes before the message event
   of the same execution. *)
C6_ArtifactAfterMessage ==
    [][\A t \in TaskIds : \A l \in Listeners :
         LET d == Types(Of(Delivered(t), l))
         IN /\ \A i, j \in 1..Len(d) : i < j => ClaimedRank(d[i]) <= ClaimedRank(d[j])
            /\ \A j \in 1..Len(d) :
                  d[j] = "artifact" => \E i \in 1..(j - 1) : d[i] = "message"]_vars

(* C6, amended -- Each subscriber of a task receives the events of an
   execution in the order status, then at most one artifact event, then
   message, then complete; an execution that fails hands over one error
   event.  The artifact event comes before the message event. *)
C6_ArtifactBeforeMessage ==
    [][\A t \in TaskIds : \A l \in Listeners :
         Types(Of(Delivered(t), l)) \in ExecutionOrders]_vars

\* A listener has received artifact, message and complete, one after the other.
C6_ArtifactMessageCompleteSeen ==
    \E t \in TaskIds : \E i \in 1..(Len(log[t]) - 2) :
       /\ log[t][i].type = "artifact"
       /\ log[t][i + 1].type = "message"
       /\ log[t][i + 2].type = "complete"
       /\ log[t][i].lis = log[t][i + 1].lis
       /\ log[t][i].lis = log[t][i + 2].lis

\* l is in the Set object registered for t.
Registered(t, l) == \E i \in 1..Len(ListenersOf(t)) : ListenersOf(t)[i] = l

\* All that l has received for t is the status 'working' of its subscription.
OnlyWorkingSeen(t, l) ==
    Of(log[t], l) = <<[lis |-> l, type |-> "status", task |-> t, info |-> "working"]>>

(* C7, as claimed -- A subscriber registered after Create Task returned and
   before the handler finished receives, when the handler succeeds, exactly
   status (working), message, complete. *)
C7_StatusMessageComplete ==
    [][\A t \in 1..Len(tasks) : \A l \in Listeners :
         (/\ last'.op = "processTask" /\ last'.ret = "resolved" /\ last'.task = t
          /\ Registered(t, l)
          /\ OnlyWorkingSeen(t, l))
         => Types(Of(log'[t], l)) = <<"status", "message", "complete">>]_vars

(* C7, amended -- Such a subscriber receives status (working), then one
   artifact event when the handler's result carries an artifact, then
   message, then complete. *)
C7_StatusArtifactMessageComplete ==
    [][\A t \in 1..Len(tasks) : \A l \in Listeners :
         (/\ last'.op = "processTask" /\ last'.ret = "resolved" /\ last'.task = t
          /\ Registered(t, l)
          /\ OnlyWorkingSeen(t, l))
         => Types(Of(log'[t], l)) =
               <<"status">>
               \o (IF Len(tasks'[t].artifacts) > Len(tasks[t].artifacts)
                   THEN <<"artifact">> ELSE <<>>)
               \o <<"message", "complete">>]_vars

\* A listener that subscribed to a working task has seen its handler succeed
\* with an artifact.
C7_SubscriberSawArtifactRun ==
    \E t \in 1..Len(tasks) : \E l \in Listeners :
       /\ last.op = "processTask" /\ last.ret = "resolved" /\ last.task = t
       /\ Len(Of(log[t], l)) = 4
       /\ Of(log[t], l)[1].info = "working"
       /\ Types(Of(log[t], l)) = <<"status", "artifact", "message", "complete">>

(* C8 -- Subscribe on an existing task hands the new callback, within the
   call, exactly one status event carrying the task's current state; for a
   completed task that is the terminal state, and no 'working' is replayed. *)
C8_SubscribeHandsCurrentStatus ==
    [][(last'.op = "subscribeToTask" /\ Exists(last'.task))
       => LET t == last'.task
              l == subs'[last'.sub].lis
          IN /\ log'[t] = Append(log[t], [lis |-> l, type |-> "status", task |-> t,
                                          info |-> tasks[t].status.state])
             /\ \A u \in TaskIds \ {t} : log'[u] = log[u]]_vars

\* A callback has just subscribed to a completed task and got 'completed'.
C8_LateSubscriberGotCompleted ==
    /\ last.op = "subscribeToTask"
    /\ Exists(last.task)
    /\ tasks[last.task].status.state = "completed"
    /\ Len(log[last.task]) > 0
    /\ log[last.task][Len(log[last.task])].type = "status"
    /\ log[last.task][Len(log[last.task])].info = "completed"

\* How many events an operation publishes through emitEvent.
Published(t) ==
    CASE last'.op = "cancelTask" /\ last'.ret = "true" -> 1
      [] last'.op = "processTask" /\ last'.ret = "caught" -> 1
      [] last'.op = "processTask" /\ last'.ret = "resolved" ->
            IF Len(tasks'[t].artifacts) > Len(tasks[t].artifacts) THEN 3 ELSE 2
      [] last'.op = "continueTask" /\ last'.ret = "task" -> 3
      [] OTHER -> 0

(* C9 -- An event published for a task reaches, once, every listener
   registered for that task id at that moment, in the order of registration;
   a listener that throws does not keep the event from the listeners after
   it and does not change what the operation does to the task's state. *)
C9_PublishReachesEveryListener ==
    [][\A t \in 1..Len(tasks) :
         (last'.task = t /\ last'.op \in {"cancelTask", "processTask", "continueTask"})
         => LET ls == ListenersOf(t)
                n == Len(ls)
                d == Delivered(t)
            IN /\ Len(d) = n * Published(t)
               /\ \A k \in 1..Len(d) :
                     /\ d[k].lis = ls[((k - 1) % n) + 1]
                     /\ d[k].type = d[k - ((k - 1) % n)].type
                     /\ d[k].info = d[k - ((k - 1) % n)].info
               /\ Len(last'.writes) > 0 =>
                     tasks'[t].status.state = last'.writes[Len(last'.writes)]]_vars

\* An event went to a throwing listener and then to the listener after it.
C9_DeliveredPastThrower ==
    \E t \in TaskIds : \E i \in 1..(Len(log[t]) - 1) :
       /\ log[t][i].lis \in Throwing
       /\ log[t][i + 1].lis \notin Throwing
       /\ log[t][i].type = "error"
       /\ log[t][i + 1].type = "error"

\* l is in the Set object registered for t once the step is done.
RegisteredAfter(t, l) ==
    /\ taskListeners'[t] # NoSet
    /\ \E i \in 1..Len(sets'[taskListeners'[t]]) : sets'[taskListeners'[t]][i] = l

(* C10 -- Calling an unsubscribe function after the bus entry of its task
   was cleaned up is a no-op: it removes or silences no subscriber that
   registered for the task id afterwards.  The code breaks it: the closure
   tests the size of its own, emptied Set and then deletes whatever entry
   the map holds for the task id. *)
C10_StaleUnsubscribeIsNoOp ==
    [][(/\ last'.op = "unsubscribe"
        /\ Exists(subs[last'.sub].task)
        /\ taskListeners[subs[last'.sub].task] # subs[last'.sub].set)
       => \A l \in Listeners \ {subs[last'.sub].lis} :
             Registered(subs[last'.sub].task, l)
                => RegisteredAfter(subs[last'.sub].task, l)]_vars

----------------------------------------------------------------------------
(* Webhooks *)

(* C11 -- For a task created with a webhook configuration, a webhook is
   fired at most once per transition into completed or failed, never for a
   transition to a non-terminal status, and never once the task is already
   terminal.  The code breaks it: processTask sends the 'completed' webhook
   after completeTask whatever status the handler returned and whatever
   state the task was in. *)
C11_WebhookOnlyOnTerminalTransition ==
    [][\A t \in 1..Len(tasks) :
         webhooks'[t] # webhooks[t]
         => (/\ proc[t].request.webhook
             /\ Len(webhooks'[t]) = Len(webhooks[t]) + 1
             /\ tasks'[t].status.state \in {"completed", "failed"}
             /\ tasks[t].status.state \notin TerminalStates)]_vars

(* C13 -- When a webhook is configured and the handler throws, exactly one
   webhook call is made for the task, with event "failed" and carrying the
   status failed the task has just been given; none was made while the
   handler was in flight and none is made afterwards. *)
C13_OneFailedWebhook ==
    [][\A t \in 1..Len(tasks) :
         /\ (/\ last'.op = "processTask" /\ last'.ret = "caught" /\ last'.task = t
             /\ proc[t].request.webhook)
            => (/\ webhooks[t] = <<>>
                /\ tasks'[t].status.state = "failed"
                /\ webhooks'[t] = <<[task |-> t, event |-> "failed",
                                     state |-> "failed"]>>)
         /\ proc[t].phase # "done" => webhooks[t] = <<>>
         /\ proc[t].phase = "done" => webhooks'[t] = webhooks[t]]_vars

\* The handler of a task with a webhook threw while the task was working,
\* and the one webhook call has been made.
C13_FailedWebhookSent ==
    \E t \in 1..Len(tasks) :
       /\ last.op = "processTask" /\ last.ret = "caught" /\ last.task = t
       /\ proc[t].request.skill \in HandlerSkills
       /\ proc[t].request.webhook
       /\ tasks[t].status.state = "failed"
       /\ Len(webhooks[t]) = 1
       /\ webhooks[t][1].event = "failed"

----------------------------------------------------------------------------
(* Unregistered capabilities *)

\* The error code a task status shows: A2aTaskStatus has no such field.
StatusCode(status) == IF "code" \in DOMAIN status THEN status.code ELSE None

\* The request names no skill that executeSkill knows.
Unregistered(request) == request.skill \notin HandlerSkills

(* C14, as claimed -- Create Task with a capability that is not registered
   returns a task id synchronously, and the task then moves directly from
   working to failed with error code NOT_IMPLEMENTED, which Get Task shows
   afterwards. *)
C14_UnregisteredFailsNotImplemented ==
    [][/\ (last'.op = "createTask" /\ Unregistered(proc'[last'.task].request))
          => (last'.task = Len(tasks) + 1 /\ last'.ret = "working")
       /\ \A t \in 1..Len(tasks) :
            (last'.op = "processTask" /\ last'.task = t /\ Unregistered(proc[t].request))
            => (/\ StateChain(t) = <<"working", "failed">>
                /\ getTask(tasks', t).status.state = "failed"
                /\ StatusCode(getTask(tasks', t).status) = "NOT_IMPLEMENTED")]_vars

(* C14, amended -- Create Task with a capability that is not registered
   returns a task id synchronously.  When the request has no text part the
   task then moves directly from working to failed, with nothing appended,
   and Get Task shows state failed with the message of the NOT_IMPLEMENTED
   error; the task status holds no error code.  When the request has a text
   part it is handed to the natural-language handler and is not failed as an
   unknown skill. *)
C14_UnregisteredWithoutTextFails ==
    [][/\ (last'.op = "createTask" /\ Unregistered(proc'[last'.task].request))
          => (last'.task = Len(tasks) + 1 /\ last'.ret = "working")
       /\ \A t \in 1..Len(tasks) :
            (last'.op = "processTask" /\ last'.task = t /\ Unregistered(proc[t].request))
            => IF Truthy(parseSkillInvocation(proc[t].request).context)
               THEN getTask(tasks', t).status.message # ErrorMessage("NOT_IMPLEMENTED")
               ELSE /\ last'.ret = "caught"
                    /\ StateChain(t) = <<"working", "failed">>
                    /\ getTask(tasks', t).status =
                          [state |-> "failed", message |-> ErrorMessage("NOT_IMPLEMENTED")]
                    /\ StatusCode(getTask(tasks', t).status) = None
                    /\ getTask(tasks', t).messages = tasks[t].messages
                    /\ getTask(tasks', t).artifacts = tasks[t].artifacts]_vars

\* A task created for an unknown skill, without text, has just been failed.
C14_UnknownSkillFailed ==
    \E t \in 1..Len(tasks) :
       /\ last.op = "processTask" /\ last.ret = "caught" /\ last.task = t
       /\ Unregistered(proc[t].request)
       /\ getTask(tasks, t).status.state = "failed"
       /\ getTask(tasks, t).status.message = ErrorMessage("NOT_IMPLEMENTED")

----------------------------------------------------------------------------
(* Errors of the handler *)

(* C15 -- Whatever the handler throws, an AdcpError or anything else, is
   caught by processTask and turned into the state failed; and once the
   handler of a task has returned or thrown, no operation ends with the
   task in working. *)
C15_SettledTaskLeavesWorking ==
    [][\A t \in 1..Len(tasks) :
         /\ (last'.op = "processTask" /\ last'.task = t)
            => (/\ proc[t].phase # "done"
                /\ proc'[t].phase = "done"
                /\ tasks'[t].status.state # "working"
                /\ last'.ret = "caught" => tasks'[t].status.state = "failed")
         /\ proc[t].phase = "done" => tasks'[t].status.state # "working"]_vars

\* A handler threw something that is not an AdcpError, and its task is
\* failed with the message of what was thrown.
C15_PlainErrorFailedTask ==
    \E t \in 1..Len(tasks) :
       /\ last.op = "processTask" /\ last.ret = "caught" /\ last.task = t
       /\ proc[t].phase = "done"
       /\ tasks[t].status = [state |-> "failed", message |-> ErrorMessage(PlainError)]

----------------------------------------------------------------------------
(* Messages and artifacts *)

IsPrefix(a, b) == Len(a) <= Len(b) /\ SubSeq(b, 1, Len(a)) = a

(* C16 -- Over any sequence of operations the messages and the artifacts of
   a task only grow: what a task held before an operation is a prefix of
   what it holds after it, and no task leaves the store. *)
C16_MessagesAndArtifactsOnlyGrow ==
    [][/\ Len(tasks') >= Len(tasks)
       /\ \A t \in 1..Len(tasks) :
            /\ IsPrefix(tasks[t].messages, tasks'[t].messages)
            /\ IsPrefix(tasks[t].artifacts, tasks'[t].artifacts)]_vars

\* A task holds the request, the handler's answer with an artifact, and a
\* continuation with its acknowledgement.
C16_FourMessagesOneArtifact ==
    \E t \in 1..Len(tasks) :
       /\ Len(tasks[t].messages) = 4
       /\ Len(tasks[t].artifacts) = 1
       /\ tasks[t].messages[2] = ResponseMessage
       /\ tasks[t].messages[4] = AckMessage

----------------------------------------------------------------------------
(* Continue *)

\* The messages a step appends to task t.
Appended(t) ==
    SubSeq(tasks'[t].messages, Len(tasks[t].messages) + 1, Len(tasks'[t].messages))

(* C17 -- Continue calls on the same input-required task run one after the
   other.  The first performs the input-required->working transition and
   its message is appended first; after it the task is never again
   input-required, so the other call performs no such transition and is
   served after it.  Each call appends its requester message whole, followed
   by its acknowledgement: the messages of two calls are never interleaved. *)
C17_ContinuesSerialized ==
    [][\A t \in 1..Len(tasks) :
         /\ (last'.op = "continueTask" /\ last'.task = t)
            => (/\ IsPrefix(tasks[t].messages, tasks'[t].messages)
                /\ \E parts \in PartsChoices :
                      Appended(t) = <<[role |-> "user", parts |-> parts], AckMessage>>
                /\ tasks'[t].status.state # "input-required"
                /\ tasks[t].status.state = "input-required"
                      => (last'.writes[1] = "working" /\ proc[t].phase = "done"))
         /\ (proc[t].phase = "done" /\ tasks[t].status.state # "input-required")
            => tasks'[t].status.state # "input-required"]_vars

\* A subscriber saw a task input-required and then two Continue calls served
\* one after the other, whose different parts are stored in that order.
C17_TwoContinuesInOrder ==
    \E t \in 1..Len(tasks) : \E l \in Listeners :
       /\ last.op = "continueTask" /\ last.task = t
       /\ Len(Of(log[t], l)) = 7
       /\ Of(log[t], l)[1].info = "input-required"
       /\ Types(Of(log[t], l)) = <<"status", "status", "message", "complete",
                                    "status", "message", "complete">>
       /\ Len(tasks[t].messages) = 6
       /\ tasks[t].messages[3].role = "user"
       /\ tasks[t].messages[4] = AckMessage
       /\ tasks[t].messages[5].role = "user"
       /\ tasks[t].messages[6] = AckMessage
       /\ tasks[t].messages[3].parts # tasks[t].messages[5].parts

(* C18 -- No two executions of the same task overlap: a Continue issued
   while the handler is still in flight (the task is working) starts no
   execution, so it appends no agent message and publishes no complete
   event.  The code breaks it: continueTask completes the task with an
   acknowledgement whatever its state, and the handler completes it again. *)
C18_NoExecutionWhileWorking ==
    [][\A t \in 1..Len(tasks) :
         (/\ last'.op = "continueTask" /\ last'.task = t
          /\ proc[t].phase = "pending"
          /\ tasks[t].status.state = "working")
         => (/\ \A i \in 1..Len(Appended(t)) : Appended(t)[i].role # "agent"
             /\ \A i \in 1..Len(Delivered(t)) : Delivered(t)[i].type # "complete")]_vars

(* C19 -- Continue on an existing input-required task appends exactly one
   requester message built from the new parts, sets the state to working,
   publishes a status event with state working before any message or
   complete event of the resumed execution, and starts the execution again.
   The code breaks the last part: continueTask does not call the handler, it
   appends an acknowledgement and marks the task completed. *)
C19_ContinueResumesExecution ==
    [][\A t \in 1..Len(tasks) :
         (/\ last'.op = "continueTask" /\ last'.task = t
          /\ tasks[t].status.state = "input-required")
         => (/\ IsPrefix(tasks[t].messages, tasks'[t].messages)
             /\ Len(Appended(t)) >= 1
             /\ Appended(t)[1].role = "user"
             /\ Appended(t)[1].parts \in PartsChoices
             /\ Len(SelectSeq(Appended(t), LAMBDA m : m.role = "user")) = 1
             /\ last'.writes[1] = "working"
             /\ \A l \in Listeners :
                   Registered(t, l)
                   => (/\ Len(Of(Delivered(t), l)) >= 1
                       /\ Of(Delivered(t), l)[1].type = "status"
                       /\ Of(Delivered(t), l)[1].info = "working")
             /\ proc'[t].phase = "pending")]_vars

----------------------------------------------------------------------------
(* Create *)

(* C20 -- Create Task stores one new task, in state working, whose messages
   are exactly the one inbound requester message and whose artifacts are
   empty, leaves the other tasks alone, and returns the new task id with
   status working while the handler has not finished. *)
C20_CreateStoresWorkingTask ==
    [][last'.op = "createTask"
       => LET t == last'.task
          IN /\ t = Len(tasks) + 1
             /\ Len(tasks') = t
             /\ SubSeq(tasks', 1, Len(tasks)) = tasks
             /\ getTask(tasks', t).status.state = "working"
             /\ getTask(tasks', t).messages =
                   <<[role |-> "user", parts |-> proc'[t].request.parts]>>
             /\ getTask(tasks', t).artifacts = <<>>
             /\ last'.ret = "working"
             /\ proc'[t].phase # "done"
             /\ log' = log
             /\ webhooks' = webhooks]_vars

\* A second task has just been created while the first one has moved on;
\* its handler is in flight.
C20_SecondTaskCreatedWorking ==
    /\ last.op = "createTask"
    /\ last.task = 2
    /\ Len(tasks) = 2
    /\ tasks[1].status.state # "working"
    /\ tasks[2].status.state = "working"
    /\ Len(tasks[2].messages) = 1
    /\ proc[2].phase = "pending"

\* The status events among events, for task t.
StatusEventsFor(events, t) ==
    SelectSeq(events, LAMBDA e : e.type = "status" /\ e.task = t)

(* C21, as claimed -- Create Task publishes exactly one status event with
   state working for the new task, before the handler's execution step
   starts. *)
C21_CreatePublishesWorking ==
    [][last'.op = "createTask"
       => (/\ Len(StatusEventsFor(emitted', last'.task)) = 1
           /\ StatusEventsFor(emitted', last'.task)[1].info = "working")]_vars

(* C21, amended -- Create Task publishes no event: the handler's execution
   step starts without a status event having been published for the new
   task, and no listener is called. *)
C21_CreatePublishesNothing ==
    [][last'.op = "createTask"
       => (/\ emitted' = <<>>
           /\ log' = log
           /\ taskListeners'[last'.task] = NoSet)]_vars

\* The first task has just been created: nothing was published and nobody
\* listens to it yet.
C21_FirstTaskCreatedSilently ==
    /\ last.op = "createTask"
    /\ last.task = 1
    /\ emitted = <<>>
    /\ log[1] = <<>>
    /\ tasks[1].status.state = "working"

(* C22 -- A Create Task request with zero parts is rejected synchronously
   with a validation error; no task is stored and no event is published for
   it.  The code breaks it: createTask never looks at request.parts. *)
C22_ZeroPartsRejected ==
    [][(last'.op = "createTask" /\ Len(parse'[1].request.parts) = 0)
       => (/\ last'.ret = "validation error"
           /\ tasks' = tasks
           /\ emitted' = <<>>
           /\ log' = log)]_vars

----------------------------------------------------------------------------
(* Subscriptions and terminal states *)

(* C23 -- When a task reaches a terminal state and its final event has been
   delivered, its subscriptions are destroyed: no callback stays registered
   for it.  The code breaks it: only an unsubscribe function removes a
   listener. *)
C23_TerminalTaskHasNoListener ==
    [][\A t \in 1..Len(tasks) :
         (/\ last'.task = t
          /\ last'.op \in {"processTask", "cancelTask", "continueTask"}
          /\ tasks'[t].status.state \in TerminalStates)
         => taskListeners'[t] = NoSet]_vars

----------------------------------------------------------------------------
(* Failures *)

\* The state an operation leaves: the last value it assigned, if any.
FinalWrite == IF Len(last'.writes) > 0 THEN last'.writes[Len(last'.writes)] ELSE None

(* C24 -- Every transition of a task into failed comes with an error event
   that carries a code and a message, also when the handler itself returns
   status failed.  The code breaks it: a result with status failed goes
   through completeTask, which publishes message and complete only. *)
C24_FailedCarriesCode ==
    [][\A t \in 1..Len(tasks) :
         (last'.task = t /\ FinalWrite = "failed")
         => \E i \in 1..Len(emitted') :
               /\ emitted'[i].type = "error"
               /\ emitted'[i].task = t
               /\ emitted'[i].info # None
               /\ emitted'[i].message # None]_vars

\* Code and message of the error event for each thing a handler or
\* executeSkill throws: the code of an AdcpError is kept, anything else is
\* reported as INTERNAL_ERROR.
ThrownCodeAndMessage ==
    {<<c, "domain error message">> : c \in HandlerErrorCodes}
    \cup {<<"NOT_IMPLEMENTED", "Unknown skill">>,
          <<"INTERNAL_ERROR", "plain error message">>}

(* C25 -- When the handler throws, the task becomes failed and exactly one
   event is published, an error event handed once to every listener of the
   task, whose code is the thrown AdcpError's own code, or INTERNAL_ERROR
   for any other exception, and whose message is the thrown error's, which
   is also the message of the task's status. *)
C25_ThrownErrorPublished ==
    [][\A t \in 1..Len(tasks) :
         (last'.op = "processTask" /\ last'.ret = "caught" /\ last'.task = t)
         => (/\ tasks'[t].status.state = "failed"
             /\ Len(emitted') = 1
             /\ emitted'[1].type = "error"
             /\ emitted'[1].task = t
             /\ <<emitted'[1].info, emitted'[1].message>> \in ThrownCodeAndMessage
             /\ tasks'[t].status.message = emitted'[1].message
             /\ Delivered(t) = ToAll(t, emitted'[1]))]_vars

\* A handler threw an AdcpError and a listener of the task received the
\* error event with that error's code.
C25_DomainCodeDelivered ==
    \E t \in 1..Len(tasks) :
       /\ last.op = "processTask" /\ last.ret = "caught" /\ last.task = t
       /\ emitted = <<ErrorEvent(t, "INVALID_REQUEST", "domain error message")>>
       /\ Len(log[t]) > 0
       /\ log[t][Len(log[t])].type = "error"
       /\ log[t][Len(log[t])].info = "INVALID_REQUEST"
       /\ tasks[t].status.state = "failed"

(* C28 -- A webhook's event name agrees with the state it reports: a
   webhook with event "completed" is sent only when the task's state is
   completed.  The code breaks it: after completeTask the event name is
   always "completed", whatever status the handler returned. *)
C28_CompletedWebhookMeansCompleted ==
    \A t \in TaskIds : \A i \in 1..Len(webhooks[t]) :
       webhooks[t][i].event = "completed" => webhooks[t][i].state = "completed"

----------------------------------------------------------------------------
(* The parser *)

\* The positions of the parts of one type.
PartsOfType(parts, type) == {i \in 1..Len(parts) : parts[i].type = type}

\* The greatest of a non-empty set of positions.
Latest(positions) == CHOOSE i \in positions : \A j \in positions : j <= i

\* The least of a non-empty set of positions.
Earliest(positions) == CHOOSE i \in positions : \A j \in positions : i <= j

\* The uris of the file parts, in the order of the parts.
RECURSIVE FileUris(_)
FileUris(parts) ==
    IF parts = <<>> THEN <<>>
    ELSE IF Head(parts).type = "file"
         THEN <<Head(parts).uri>> \o FileUris(Tail(parts))
         ELSE FileUris(Tail(parts))

(* C26 -- For every ordered list of parts, the parameters the parser returns
   are the shallow merge of all data parts taken in order: they have every
   key of every data part, each with the value of the last data part that
   has the key; and the files are all file parts in their original order
   (no list at all, undefined, when there is no file part). *)
C26_ParametersMergedFilesInOrder ==
    \A c \in 1..Len(parse) :
       LET parts == parse[c].request.parts
           invocation == parse[c].invocation
           data == PartsOfType(parts, "data")
           keys == UNION {DOMAIN parts[i].data : i \in data}
       IN /\ DOMAIN invocation.parameters = keys
          /\ \A k \in keys :
                invocation.parameters[k] =
                   parts[Latest({i \in data : k \in DOMAIN parts[i].data})].data[k]
          /\ IF PartsOfType(parts, "file") = {}
             THEN invocation.files = None
             ELSE invocation.files = FileUris(parts)

\* A list was parsed in which a later data part overrides a key of an
\* earlier one, followed by a file.
C26_ConflictAndTwoFilesParsed ==
    \E c \in 1..Len(parse) :
       LET parts == parse[c].request.parts
       IN /\ Len(parts) = 3
          /\ parts[1] = [type |-> "data", data |-> [k1 |-> 1]]
          /\ parts[2] = [type |-> "data", data |-> [k1 |-> 2]]
          /\ parts[3].type = "file"
          /\ parse[c].invocation.parameters.k1 = 2
          /\ parse[c].invocation.files = <<parts[3].uri>>

(* C27, as claimed -- For every ordered list of parts that holds at least
   one text part, the parser's context is the first text part of the list. *)
C27_ContextIsFirstText ==
    \A c \in 1..Len(parse) :
       LET parts == parse[c].request.parts
           texts == PartsOfType(parts, "text")
       IN texts # {} => parse[c].invocation.context = parts[Earliest(texts)].text

(* C27, amended -- For every ordered list of parts that holds at least one
   text part, the parser's context is the last text part of the list. *)
C27_ContextIsLastText ==
    \A c \in 1..Len(parse) :
       LET parts == parse[c].request.parts
           texts == PartsOfType(parts, "text")
       IN texts # {} => parse[c].invocation.context = parts[Latest(texts)].text

\* A list with two different text parts was parsed and the context is the
\* second one.
C27_TwoTextsParsed ==
    \E c \in 1..Len(parse) :
       LET parts == parse[c].request.parts
       IN /\ Len(parts) >= 2
          /\ parts[1] = [type |-> "text", text |-> "hello"]
          /\ parts[2] = [type |-> "text", text |-> "world"]
          /\ PartsOfType(parts, "text") = {1, 2}
          /\ parse[c].invocation.context = "world"

----------------------------------------------------------------------------
(* Subscriptions of one callback; independence of tasks *)

(* C29 -- Each Subscribe call creates its own subscription: when the same
   callback is subscribed twice to one task, calling the unsubscribe
   function of the earlier call does not stop delivery for the later, still
   open, subscription.  The code breaks it: the two calls share one entry of
   the Set, which either unsubscribe function deletes. *)
C29_OtherSubscriptionStaysOpen ==
    [][(/\ last'.op = "unsubscribe"
        /\ Exists(subs[last'.sub].task)
        /\ subs[last'.sub].lis \notin Throwing
        /\ taskListeners[subs[last'.sub].task] = subs[last'.sub].set
        /\ Registered(subs[last'.sub].task, subs[last'.sub].lis)
        /\ \E j \in (last'.sub + 1)..Len(subs) :
              /\ subs[j].task = subs[last'.sub].task
              /\ subs[j].lis = subs[last'.sub].lis
              /\ subs[j].set = subs[last'.sub].set)
       => RegisteredAfter(subs[last'.sub].task, subs[last'.sub].lis)]_vars

\* The listeners of t once the step is done.
ListenersAfter(t) ==
    IF taskListeners'[t] = NoSet THEN <<>> ELSE sets'[taskListeners'[t]]

(* C30 -- Tasks are independent: an operation for one task id leaves the
   status, messages and artifacts of every other task, the listeners
   registered for every other task id and the webhooks sent for it
   unchanged, publishes events for its own task id only and calls no
   listener for another one. *)
C30_OtherTasksUntouched ==
    [][/\ \A u \in 1..Len(tasks) : u # last'.task => tasks'[u] = tasks[u]
       /\ \A u \in TaskIds \ {last'.task} :
             /\ ListenersAfter(u) = ListenersOf(u)
             /\ log'[u] = log[u]
             /\ webhooks'[u] = webhooks[u]
       /\ \A i \in 1..Len(emitted') : emitted'[i].task = last'.task
       /\ \A u \in TaskIds : \A i \in 1..Len(Delivered(u)) :
             /\ Delivered(u)[i].task = u
             /\ \/ last'.op = "subscribeToTask"
                \/ Registered(u, Delivered(u)[i].lis)]_vars

\* Two tasks have a listener each; the first one has just been cancelled
\* and the listener of the second one, still working, has heard nothing of it.
C30_CancelledBesideWorking ==
    /\ Len(tasks) = 2
    /\ last.op = "cancelTask" /\ last.ret = "true" /\ last.task = 1
    /\ ListenersOf(1) # <<>>
    /\ ListenersOf(2) # <<>>
    /\ log[1][Len(log[1])].type = "error"
    /\ Types(log[2]) = <<"status">>
    /\ tasks[2].status.state = "working"

====
